---- MODULE Spec2Model ----
(***************************************************************************)
(* Feedback-report pipeline of Votex-backend.  The repository holds two   *)
(* implementations of the same /report pipeline: the single-file one      *)
(* (main.py) and the package one (core/llm.py, services/feedback.py,      *)
(* utils/redaction.py, api/routes/report.py).  Both are modelled; the     *)
(* field impl of a request says which one serves it.                      *)
(*                                                                         *)
(* Texts are sequences of one-character strings.                          *)
(***************************************************************************)
EXTENDS Integers, Sequences, FiniteSets, TLC

---------------------------------------------------------------------------
(* Characters and Python's str helpers                                     *)

Digits == {"0", "1", "2", "3", "4", "5", "6", "7", "8", "9"}

Letters ==
  {"a", "b", "c", "d", "e", "f", "g", "h", "i", "j", "k", "l", "m",
   "n", "o", "p", "q", "r", "s", "t", "u", "v", "w", "x", "y", "z",
   "A", "B", "C", "D", "E", "F", "G", "H", "I", "J", "K", "L", "M",
   "N", "O", "P", "Q", "R", "S", "T", "U", "V", "W", "X", "Y", "Z"}

\* \w of Python's re, on the characters the model uses
WordChars == Digits \cup Letters \cup {"_"}

\* [A-Za-z0-9._%+-], the local part of the e-mail pattern
LocalChars == Digits \cup Letters \cup {".", "_", "%", "+", "-"}

\* [A-Za-z0-9.-], the domain part of the e-mail pattern
DomainChars == Digits \cup Letters \cup {".", "-"}

\* what str.strip() removes and \s matches
Whitespace == {" ", "\n", "\t", "\r"}

Max(S) == CHOOSE x \in S : \A y \in S : y <= x

\* s[i..j-1] as a sequence (empty when j <= i)
Slice(s, i, j) == [k \in 1..(IF j > i THEN j - i ELSE 0) |-> s[i + k - 1]]

\* one past the end of the longest run of characters of set cs starting at i
RunEnd(s, i, cs) ==
  CHOOSE j \in i..(Len(s) + 1) :
    /\ \A k \in i..(j - 1) : s[k] \in cs
    /\ (j = Len(s) + 1 \/ s[j] \notin cs)

---------------------------------------------------------------------------
(* redact_pii: utils/redaction.py and main.py hold the same two patterns   *)

REDACTED == <<"[", "R", "E", "D", "A", "C", "T", "E", "D", "]">>

\* the 6 of \d{6,}
MinDigitRun == 6

\* the 2 of [A-Za-z]{2,}
MinTldLen == 2

\* \b\d{6,}\b matches at i: one past the match, or 0.  The greedy run cannot
\* give digits back, since \b does not hold between two digits.
LongDigitsMatchEnd(s, i) ==
  LET e == RunEnd(s, i, Digits)
  IN IF /\ s[i] \in Digits
        /\ (i = 1 \/ s[i - 1] \notin WordChars)
        /\ e - i >= MinDigitRun
        /\ (e > Len(s) \/ s[e] \notin WordChars)
     THEN e ELSE 0

\* [A-Za-z0-9._%+-]+@[A-Za-z0-9.-]+\.[A-Za-z]{2,} matches at i: one past the
\* match, or 0.  The local part runs up to the @; the domain is greedy and
\* backtracks to the last dot that two letters follow; the TLD is greedy.
EmailMatchEnd(s, i) ==
  LET at == RunEnd(s, i, LocalChars)
  IN IF at = i \/ at > Len(s) THEN 0
     ELSE IF s[at] # "@" THEN 0
     ELSE LET de == RunEnd(s, at + 1, DomainChars)
              dots == {q \in (at + 2)..(de - 1) :
                         /\ s[q] = "."
                         /\ RunEnd(s, q + 1, Letters) - (q + 1) >= MinTldLen}
          IN IF dots = {} THEN 0 ELSE RunEnd(s, Max(dots) + 1, Letters)

RECURSIVE SubLongDigits(_, _)
\* re.sub(r"\b\d{6,}\b", "[REDACTED]", s), scanning from i
SubLongDigits(s, i) ==
  IF i > Len(s) THEN <<>>
  ELSE LET e == LongDigitsMatchEnd(s, i)
       IN IF e > 0 THEN REDACTED \o SubLongDigits(s, e)
          ELSE <<s[i]>> \o SubLongDigits(s, i + 1)

RECURSIVE SubEmails(_, _)
\* re.sub(<e-mail pattern>, "[REDACTED]", s), scanning from i
SubEmails(s, i) ==
  IF i > Len(s) THEN <<>>
  ELSE LET e == EmailMatchEnd(s, i)
       IN IF e > 0 THEN REDACTED \o SubEmails(s, e)
          ELSE <<s[i]>> \o SubEmails(s, i + 1)

\* the two substitutions, in the order of the pattern list
redact_pii(text) == SubEmails(SubLongDigits(text, 1), 1)

---------------------------------------------------------------------------
(* parse_action_steps: main.py and services/feedback.py differ             *)

Min(S) == CHOOSE x \in S : \A y \in S : x <= y

\* str.strip()
Strip(s) ==
  LET keep == {k \in 1..Len(s) : s[k] \notin Whitespace}
  IN IF keep = {} THEN <<>> ELSE Slice(s, Min(keep), Max(keep) + 1)

RECURSIVE SplitNewline(_)
\* text.split('\n'): never empty, a trailing newline gives a last empty line
SplitNewline(s) ==
  LET nl == {k \in 1..Len(s) : s[k] = "\n"}
  IN IF nl = {} THEN <<s>>
     ELSE <<Slice(s, 1, Min(nl))>> \o SplitNewline(Slice(s, Min(nl) + 1, Len(s) + 1))

RECURSIVE SplitLines(_)
\* text.splitlines(): breaks at \n, \r and \r\n; no line for the empty text
\* nor after a final line break
SplitLines(s) ==
  LET br == {k \in 1..Len(s) : s[k] \in {"\n", "\r"}}
  IN IF s = <<>> THEN <<>>
     ELSE IF br = {} THEN <<s>>
     ELSE LET k == Min(br)
              next == IF s[k] = "\r" /\ k < Len(s) /\ s[k + 1] = "\n"
                      THEN k + 2 ELSE k + 1
          IN <<Slice(s, 1, k)>> \o SplitLines(Slice(s, next, Len(s) + 1))

\* the bullet character U+2022 of main.py
BULLET == "U+2022"

\* services/feedback.py holds the three characters U+00E2 U+20AC U+00A2 in the
\* place of the bullet
MOJIBAKE == <<"U+00E2", "U+20AC", "U+00A2">>

\* str.startswith(prefix)
StartsWith(s, prefix) ==
  Len(s) >= Len(prefix) /\ Slice(s, 1, Len(prefix) + 1) = prefix

SentenceEnd == {".", "!", "?"}

RECURSIVE SplitSentences(_, _, _)
\* re.split(r'(?<=[.!?])\s+', s): scanning at i, the current piece began at from
SplitSentences(s, i, from) ==
  IF i > Len(s) THEN <<Slice(s, from, Len(s) + 1)>>
  ELSE IF i > 1 /\ s[i - 1] \in SentenceEnd /\ s[i] \in Whitespace
  THEN LET e == RunEnd(s, i, Whitespace)
       IN <<Slice(s, from, i)>> \o SplitSentences(s, e, e)
  ELSE SplitSentences(s, i + 1, from)

\* main.py: line.startswith('-') or line.startswith('*') or line.startswith(bullet)
IsBulletedMain(line) == line # <<>> /\ line[1] \in {"-", "*", BULLET}

RECURSIVE ScanLinesMain(_, _, _)
\* the loop of main.py's parse_action_steps over lines[i..]
ScanLinesMain(lines, i, actions) ==
  IF i > Len(lines) THEN actions
  ELSE LET line == Strip(lines[i])
       IN IF IsBulletedMain(line)
          THEN ScanLinesMain(lines, i + 1, Append(actions, Strip(Tail(line))))
          ELSE IF actions = <<>> /\ Len(lines) > 1 /\ line # <<>>
          THEN ScanLinesMain(lines, i + 1, Append(actions, line))
          ELSE ScanLinesMain(lines, i + 1, actions)

\* [f(x) for x in seq if keep]: the stripped pieces that are not empty
StrippedNonEmpty(pieces) ==
  LET RECURSIVE go(_)
      go(i) == IF i > Len(pieces) THEN <<>>
               ELSE IF Strip(pieces[i]) # <<>> THEN <<Strip(pieces[i])>> \o go(i + 1)
               ELSE go(i + 1)
  IN go(1)

\* main.py's parse_action_steps
parse_action_steps_main(text) ==
  LET actions == ScanLinesMain(SplitNewline(text), 1, <<>>)
  IN IF actions = <<>> /\ text # <<>>
     THEN StrippedNonEmpty(SplitSentences(text, 1, 1))
     ELSE actions

\* services/feedback.py: ln.startswith(("-", "*", <the three characters>))
IsBulletedPkg(line) ==
  StartsWith(line, <<"-">>) \/ StartsWith(line, <<"*">>) \/ StartsWith(line, MOJIBAKE)

RECURSIVE ScanLinesPkg(_, _, _)
\* the loop of services/feedback.py's parse_action_steps over lines[i..]
ScanLinesPkg(lines, i, actions) ==
  IF i > Len(lines) THEN actions
  ELSE LET line == Strip(lines[i])
       IN IF IsBulletedPkg(line)
          THEN ScanLinesPkg(lines, i + 1, Append(actions, Strip(Tail(line))))
          ELSE ScanLinesPkg(lines, i + 1, actions)

\* [s.strip() for s in pieces if s]: the non-empty pieces, stripped
NonEmptyStripped(pieces) ==
  LET RECURSIVE go(_)
      go(i) == IF i > Len(pieces) THEN <<>>
               ELSE IF pieces[i] # <<>> THEN <<Strip(pieces[i])>> \o go(i + 1)
               ELSE go(i + 1)
  IN go(1)

\* services/feedback.py's parse_action_steps
parse_action_steps_pkg(text) ==
  LET actions == ScanLinesPkg(SplitLines(text), 1, <<>>)
  IN IF actions = <<>> /\ text # <<>>
     THEN NonEmptyStripped(SplitSentences(text, 1, 1))
     ELSE actions

---------------------------------------------------------------------------
(* send_with_retry: main.py and core/llm.py differ                         *)

\* main.py: MAX_RETRIES = 5
MAX_RETRIES == 5

\* core/config.py: int(os.getenv("MAX_RETRIES", "5"))
DEFAULT_MAX_RETRIES == 5

\* delay = 1 (main.py), delay = 1.0 (core/llm.py)
INITIAL_DELAY == 1

\* Python's None
NONE == [type |-> "None"]

\* What one invocation of call_fn does.  Every error the groq client raises
\* derives from groq.APIError; RateLimitError is one of them.
RateLimited == [kind |-> "RateLimitError", resp |-> NONE]
ApiFailed == [kind |-> "APIError", resp |-> NONE]
Completed(resp) == [kind |-> "completion", resp |-> resp]

\* The activation of send_with_retry: the loop variable attempt, the local
\* delay, and how it ended (status, value, error).  trace (what each invocation
\* of call_fn did) and sleeps (each time.sleep argument) record what it did.
Running ==
  [status |-> "running", attempt |-> 1, delay |-> INITIAL_DELAY,
   trace |-> <<>>, sleeps |-> <<>>, value |-> NONE, error |-> "none"]

\* send_with_retry is entered: range(1, maxr + 1) is empty when maxr < 1 and the
\* function then falls to its last line, return None
EnterRetry(maxr) ==
  IF maxr >= 1 THEN Running ELSE [Running EXCEPT !.status = "returned"]

\* mutant: the last attempt is taken for one more retry
MayRetryInclusive(attempt, maxr) == attempt <= maxr

\* mutant: a rate limit is never retried
MayRetryNever(attempt, maxr) == FALSE

\* if attempt < MAX_RETRIES (core/llm.py), ... and attempt < MAX_RETRIES (main.py)
MayRetry(attempt, maxr) == attempt < maxr

\* mutant: the delay is not doubled
SleepAndContinueSameDelay(f, maxr) ==
  LET g == [f EXCEPT !.sleeps = Append(@, f.delay), !.attempt = @ + 1]
  IN IF g.attempt <= maxr THEN g ELSE [g EXCEPT !.status = "returned"]

\* time.sleep(delay); delay *= 2; continue: the for loop takes the next attempt,
\* or is exhausted and the function returns None
SleepAndContinue(f, maxr) ==
  LET g == [f EXCEPT !.sleeps = Append(@, f.delay), !.delay = 2 * @,
                     !.attempt = @ + 1]
  IN IF g.attempt <= maxr THEN g ELSE [g EXCEPT !.status = "returned"]

\* raise: the exception leaves send_with_retry
Raise(f, kind) == [f EXCEPT !.status = "raised", !.error = kind]

\* return x
Return(f, x) == [f EXCEPT !.status = "returned", !.value = x]

\* core/llm.py: one pass of the loop body, call_fn doing outcome o
send_with_retry_pkg(f, maxr, o) ==
  LET g == [f EXCEPT !.trace = Append(@, o)]
  IN CASE o.kind = "completion" -> Return(g, o.resp)
       [] o.kind = "RateLimitError" ->
            IF MayRetry(g.attempt, maxr) THEN SleepAndContinue(g, maxr)
            ELSE Raise(g, "RateLimitError")
       [] o.kind = "APIError" -> Raise(g, "APIError")

\* main.py: one pass of the loop body, call_fn doing outcome o.  Both error
\* kinds are caught by except groq.APIError; what is not retried returns None.
send_with_retry_main(f, maxr, o) ==
  LET g == [f EXCEPT !.trace = Append(@, o)]
  IN CASE o.kind = "completion" -> Return(g, o.resp)
       [] o.kind \in {"RateLimitError", "APIError"} ->
            IF o.kind = "RateLimitError" /\ MayRetry(g.attempt, maxr)
            THEN SleepAndContinue(g, maxr)
            ELSE Return(g, NONE)

---------------------------------------------------------------------------
(* What the LLM client returns.  A ChatCompletion is [choices, content]:    *)
(* choices is len(resp.choices), content is choices[0].message.content:    *)
(* None, or a str.  A str the code hands to json.loads is a sequence of    *)
(* tokens: a code fence, the word json, a JSON document (with its value),  *)
(* or prose; a str the code splits into actions is a sequence of           *)
(* characters.                                                             *)

Fence == [t |-> "fence"]
Tag == [t |-> "tag"]
Json(v) == [t |-> "json", value |-> v]
\* prose with what the scraping patterns of main.py would find in it
Prose(found) == [t |-> "prose", found |-> found]

Object(fields) == [type |-> "object", fields |-> fields]
Array == [type |-> "array"]

Str(tokens) == [type |-> "str", tokens |-> tokens]
Chars(text) == [type |-> "chars", text |-> text]

ChatCompletion(content) == [choices |-> 1, content |-> content]
NoChoices == [choices |-> 0, content |-> NONE]

\* a failure of a step: the exception raised
Raised(exc) == [raised |-> TRUE, error |-> exc]
Returned(v) == [raised |-> FALSE, value |-> v]

\* json.loads(raw): the document's value when raw is one JSON document
json_loads(tokens) ==
  IF Len(tokens) = 1 /\ tokens[1].t = "json" THEN Returned(tokens[1].value)
  ELSE Raised("JSONDecodeError")

Has(obj, key) == obj.type = "object" /\ key \in DOMAIN obj.fields

---------------------------------------------------------------------------
(* analyze_feedback: main.py and services/feedback.py differ               *)

\* mutant: the default flags the text when the patterns found something
SafeDefaultFlagsPii(text) ==
  Object([contains_inappropriate |-> FALSE,
          contains_pii |-> (redact_pii(text) # text),
          cleaned_text |-> redact_pii(text)])

\* mutant: the default hands the text back as it came
SafeDefaultUnredacted(text) ==
  Object([contains_inappropriate |-> FALSE, contains_pii |-> FALSE,
          cleaned_text |-> text])

\* the dict both versions return when the LLM path gives nothing
SafeDefault(text) ==
  Object([contains_inappropriate |-> FALSE, contains_pii |-> FALSE,
          cleaned_text |-> redact_pii(text)])

\* services/feedback.py: the whole body is in try/except Exception
analyze_feedback_pkg(text, f) ==
  IF f.status = "raised" THEN Returned(SafeDefault(text))
  ELSE IF f.value = NONE THEN Returned(SafeDefault(text))
  ELSE IF f.value.choices = 0 THEN Returned(SafeDefault(text))
  ELSE IF f.value.content = NONE THEN Returned(SafeDefault(text))
  ELSE LET data == json_loads(f.value.content.tokens)
       IN IF data.raised THEN Returned(SafeDefault(text)) ELSE data

\* main.py: the default when resp is None or has no choices, and when
\* json.loads raises JSONDecodeError; json.loads(None) raises TypeError
analyze_feedback_main(text, f) ==
  IF f.status = "raised" THEN Raised(f.error)
  ELSE IF f.value = NONE THEN Returned(SafeDefault(text))
  ELSE IF f.value.choices = 0 THEN Returned(SafeDefault(text))
  ELSE IF f.value.content = NONE THEN Raised("TypeError")
  ELSE LET data == json_loads(f.value.content.tokens)
       IN IF data.raised THEN Returned(SafeDefault(text)) ELSE data

\* mutant: the inappropriate flag is not tested
FilterItemKeepsInappropriate(result) ==
  IF ~Has(result, "contains_pii") THEN "raise"
  ELSE IF result.fields.contains_pii THEN "drop"
  ELSE IF ~Has(result, "cleaned_text") THEN "raise"
  ELSE "keep"

\* mutant: the PII flag is not tested
FilterItemKeepsPii(result) ==
  IF ~Has(result, "contains_inappropriate") THEN "raise"
  ELSE IF result.fields.contains_inappropriate THEN "drop"
  ELSE IF ~Has(result, "cleaned_text") THEN "raise"
  ELSE "keep"

\* generate_report's test of one result (the same in both versions):
\*   if not result["contains_inappropriate"] and not result["contains_pii"]:
\*       clean.append(result["cleaned_text"])
\* "keep", "drop", or "raise" when a subscript fails
FilterItem(result) ==
  IF ~Has(result, "contains_inappropriate") THEN "raise"
  ELSE IF result.fields.contains_inappropriate THEN "drop"
  ELSE IF ~Has(result, "contains_pii") THEN "raise"
  ELSE IF result.fields.contains_pii THEN "drop"
  ELSE IF ~Has(result, "cleaned_text") THEN "raise"
  ELSE "keep"

---------------------------------------------------------------------------
(* comprehensive_analysis: main.py and services/feedback.py differ         *)

Sentiment(p, n, g) == Object([positive |-> p, neutral |-> n, negative |-> g])
ZeroSentiment == Sentiment(0, 0, 0)
Analysis(summary, sentiment) ==
  Object([summary |-> summary, sentiment_analysis |-> sentiment])

\* the early return for an empty list, which makes no LLM call
NoDataMain == Analysis("No feedback data available to analyze.", ZeroSentiment)
NoDataPkg == Analysis("", ZeroSentiment)

\* main.py: a leading word json is cut; then of a text that starts with a fence
\* the part between the first two fences is kept, and its leading json is cut
CleanRawMain(tokens) ==
  LET a == IF tokens # <<>> /\ tokens[1] = Tag THEN Tail(tokens) ELSE tokens
  IN IF a # <<>> /\ a[1] = Fence
     THEN LET rest == Tail(a)
              close == {k \in 1..Len(rest) : rest[k] = Fence}
              inner == IF close = {} THEN rest ELSE Slice(rest, 1, Min(close))
          IN IF inner # <<>> /\ inner[1] = Tag THEN Tail(inner) ELSE inner
     ELSE a

\* services/feedback.py: re.sub(r"```json|```", "", raw).strip() removes every
\* fence, and the word json written right after a fence
CleanRawPkg(tokens) ==
  LET drop(k) == \/ tokens[k] = Fence
                 \/ (tokens[k] = Tag /\ k > 1 /\ tokens[k - 1] = Fence)
      RECURSIVE go(_)
      go(k) == IF k > Len(tokens) THEN <<>>
               ELSE IF drop(k) THEN go(k + 1) ELSE <<tokens[k]>> \o go(k + 1)
  IN go(1)

\* What the patterns "summary":\s*"([^"]*)" and "positive":\s*(\d+) (and the
\* like) find in one token: the fields of a JSON document's text, or what the
\* prose holds.  \d+ matches no negative number.
Found(token) ==
  IF token.t = "prose" THEN token.found
  ELSE IF token.t = "json" /\ token.value.type = "object"
  THEN LET o == token.value.fields
           sent == IF "sentiment_analysis" \in DOMAIN o THEN o.sentiment_analysis
                   ELSE IF "sentiment_counts" \in DOMAIN o THEN o.sentiment_counts
                   ELSE Array
           counts == IF sent.type = "object"
                     THEN {k \in DOMAIN sent.fields \cap {"positive", "neutral", "negative"} :
                             sent.fields[k] >= 0}
                     ELSE {}
           keys == counts \cup (DOMAIN o \cap {"summary"})
       IN [k \in keys |-> IF k = "summary" THEN o.summary ELSE sent.fields[k]]
  ELSE [k \in {} |-> 0]

\* re.search over the whole text: the first token that holds the key
Scrape(tokens, key, default) ==
  LET hits == {i \in 1..Len(tokens) : key \in DOMAIN Found(tokens[i])}
  IN IF hits = {} THEN default ELSE Found(tokens[Min(hits)])[key]

\* main.py: the approximate structure built when json.loads fails
ScrapeMain(raw) ==
  Analysis(Scrape(raw, "summary", "Error parsing analysis results."),
           Sentiment(Scrape(raw, "positive", 0), Scrape(raw, "neutral", 0),
                     Scrape(raw, "negative", 0)))

\* main.py, after send_with_retry has ended
comprehensive_analysis_main(f) ==
  IF f.status = "raised" THEN Raised(f.error)
  ELSE IF f.value = NONE
  THEN Returned(Analysis("Error generating feedback analysis.", ZeroSentiment))
  ELSE IF f.value.choices = 0
  THEN Returned(Analysis("Error generating feedback analysis.", ZeroSentiment))
  ELSE IF f.value.content = NONE THEN Raised("AttributeError")
  ELSE LET raw == CleanRawMain(f.value.content.tokens)
           data == json_loads(raw)
       IN IF data.raised THEN Returned(ScrapeMain(raw)) ELSE data

\* services/feedback.py, after send_with_retry has ended: nothing is caught
\* but json.JSONDecodeError
comprehensive_analysis_pkg(f) ==
  IF f.status = "raised" THEN Raised(f.error)
  ELSE IF f.value = NONE THEN Raised("AttributeError")
  ELSE IF f.value.choices = 0 THEN Raised("IndexError")
  ELSE IF f.value.content = NONE THEN Raised("TypeError")
  ELSE LET data == json_loads(CleanRawPkg(f.value.content.tokens))
       IN IF data.raised THEN Returned(NoDataPkg) ELSE data

\* main.py, generate_report: sentiment_counts is taken for a missing
\* sentiment_analysis, zeros when both are missing; no such test or assignment
\* works on a value that is not a dict
FixKeysMain(a) ==
  IF a.type # "object" THEN Raised("TypeError")
  ELSE LET o == a.fields
           sent == IF "sentiment_analysis" \in DOMAIN o THEN o.sentiment_analysis
                   ELSE IF "sentiment_counts" \in DOMAIN o THEN o.sentiment_counts
                   ELSE ZeroSentiment
       IN Returned(Object([k \in DOMAIN o \cup {"sentiment_analysis"} |->
                             IF k = "sentiment_analysis" THEN sent ELSE o[k]]))

\* api/routes/report.py, generate_report: analysis.get(...) with defaults
FixKeysPkg(a) ==
  IF a.type # "object" THEN Raised("AttributeError")
  ELSE LET o == a.fields
       IN Returned(Analysis(
            IF "summary" \in DOMAIN o THEN o.summary ELSE "",
            IF "sentiment_analysis" \in DOMAIN o THEN o.sentiment_analysis
            ELSE ZeroSentiment))

---------------------------------------------------------------------------
(* summarize_category: main.py and services/feedback.py differ             *)

NoFeedbackAvailable ==
  <<"N", "o", " ", "f", "e", "e", "d", "b", "a", "c", "k", " ",
    "a", "v", "a", "i", "l", "a", "b", "l", "e", ".">>

\* the early return for an empty list, which makes no LLM call
NoItemsMain == NoFeedbackAvailable
NoItemsPkg == <<>>

\* main.py, after send_with_retry has ended
summarize_category_main(f) ==
  IF f.status = "raised" THEN Raised(f.error)
  ELSE IF f.value = NONE THEN Returned(<<>>)
  ELSE IF f.value.choices = 0 THEN Returned(<<>>)
  ELSE IF f.value.content = NONE THEN Raised("AttributeError")
  ELSE Returned(Strip(f.value.content.text))

\* services/feedback.py, after send_with_retry has ended:
\*   return resp.choices[0].message.content.strip() if resp else ""
summarize_category_pkg(f) ==
  IF f.status = "raised" THEN Raised(f.error)
  ELSE IF f.value = NONE THEN Returned(<<>>)
  ELSE IF f.value.choices = 0 THEN Raised("IndexError")
  ELSE IF f.value.content = NONE THEN Raised("AttributeError")
  ELSE Returned(Strip(f.value.content.text))

---------------------------------------------------------------------------
(* FeedbackResponse, as generate_report builds it                          *)

Report(summary, sent, actions, raw, clean) ==
  [summary |-> summary,
   sentiment |-> [positive |-> sent.positive, neutral |-> sent.neutral,
                  negative |-> sent.negative],
   actions |-> actions, raw_feedback_count |-> raw, clean_feedback_count |-> clean]

\* the three counts SentimentAnalysis requires
HasCounts(sent) ==
  sent.type = "object" /\ {"positive", "neutral", "negative"} \subseteq DOMAIN sent.fields

\* main.py: analysis_result["summary"], ["sentiment_analysis"]["positive"], ...
BuildResponseMain(a, actions, raw, clean) ==
  IF "summary" \notin DOMAIN a.fields THEN Raised("KeyError")
  ELSE IF a.fields.sentiment_analysis.type # "object" THEN Raised("TypeError")
  ELSE IF ~HasCounts(a.fields.sentiment_analysis) THEN Raised("KeyError")
  ELSE Returned(Report(a.fields.summary, a.fields.sentiment_analysis.fields,
                       actions, raw, clean))

\* api/routes/report.py: SentimentAnalysis(**sentiment_counts)
BuildResponsePkg(a, actions, raw, clean) ==
  IF a.fields.sentiment_analysis.type # "object" THEN Raised("TypeError")
  ELSE IF ~HasCounts(a.fields.sentiment_analysis) THEN Raised("ValidationError")
  ELSE Returned(Report(a.fields.summary, a.fields.sentiment_analysis.fields,
                       actions, raw, clean))

---------------------------------------------------------------------------
(* Bounds and the inputs drawn within them                                 *)

\* longest feedback list of a request
MaxItems == 2

\* settings.MAX_RETRIES is drawn from 1..MaxConfiguredRetries and the default
MaxConfiguredRetries == 2

Apps == {"main", "package"}

\* the requests in flight
Requests == {1}

ConfiguredRetries == (1..MaxConfiguredRetries) \cup {DEFAULT_MAX_RETRIES}

\* a feedback item without PII, and one with a long number and an e-mail address
PlainText == <<"o", "k">>
PiiText == <<"1", "2", "3", "4", "5", "6", " ", "a", "@", "b", ".", "c", "o">>
Texts == {PlainText, PiiText}

\* FeedbackRequest: at least one item, none empty after strip
FeedbackLists == UNION {[1..n -> Texts] : n \in 1..MaxItems}

\* lists of clean items, the empty one included
ItemLists == UNION {[1..n -> {PlainText, REDACTED}] : n \in 0..MaxItems}

\* texts handed to parse_action_steps: every text of up to MaxParserLen
\* characters, and the longer ones of ParserExamples
MaxParserLen == 4

ParserAlphabet == {"-", "*", BULLET, "a", ".", " ", "\n"}

ParserExamples ==
  {<<"-", " ", "a", "\n", "-", " ", "b", "\n", "-", " ", "c">>,
   <<"a", ":", "\n", "-", " ", "b", "\n", "c">>,
   <<"D", "o", " ", "X", ".", " ", "D", "o", " ", "Y", "!", " ", "D", "o", " ", "Z", "?">>}
    \cup {MOJIBAKE \o <<" ", "a">>}

ParserTexts ==
  UNION {[1..n -> ParserAlphabet] : n \in 0..MaxParserLen} \cup ParserExamples

\* texts handed to redact_pii: up to MaxRedactPieces pieces, each a character,
\* a number of MinDigitRun digits or an e-mail address
MaxRedactPieces == 3

RedactPieces ==
  {<<"1">>, <<"a">>, <<"@">>, <<".">>, <<" ">>,
   <<"1", "2", "3", "4", "5", "6">>,
   <<"a", "@", "b", ".", "c", "o">>}

RECURSIVE Concat(_)
\* "".join(pieces)
Concat(pieces) ==
  IF pieces = <<>> THEN <<>> ELSE Head(pieces) \o Concat(Tail(pieces))

RedactTexts ==
  {Concat(ps) : ps \in UNION {[1..n -> RedactPieces] : n \in 0..MaxRedactPieces}}

\* the answers of the LLM to a classification request
Verdict(ci, cp, ct) ==
  Object([contains_inappropriate |-> ci, contains_pii |-> cp, cleaned_text |-> ct])

ClassifyDocuments ==
  {Verdict(ci, cp, REDACTED) : ci \in BOOLEAN, cp \in BOOLEAN}
    \cup {Object([contains_inappropriate |-> FALSE, contains_pii |-> FALSE]),
          Object([contains_inappropriate |-> FALSE]),
          Object([k \in {} |-> FALSE]),
          Array}

ClassifyResponses ==
  {NoChoices, ChatCompletion(NONE),
   ChatCompletion(Str(<<Prose([k \in {} |-> 0])>>))}
    \cup {ChatCompletion(Str(<<Json(d)>>)) : d \in ClassifyDocuments}

\* the answers of the LLM to an analysis request
FullAnalysis == Analysis("themes", Sentiment(2, 1, 0))

AnalysisDocuments ==
  {FullAnalysis,
   Object([summary |-> "themes", sentiment_counts |-> Sentiment(1, 0, 1)]),
   Object([summary |-> "themes"]),
   Object([sentiment_analysis |-> Sentiment(0, 1, 0)]),
   Analysis("themes", Object([positive |-> 1, neutral |-> 1])),
   Analysis("themes", Sentiment(0, 0, -1)),
   Analysis("themes", Array),
   Array}

AnalysisResponses ==
  {NoChoices, ChatCompletion(NONE),
   ChatCompletion(Str(<<Fence, Tag, Json(FullAnalysis), Fence>>)),
   ChatCompletion(Str(<<Tag, Json(FullAnalysis)>>)),
   ChatCompletion(Str(<<Prose([summary |-> "scraped", positive |-> 3])>>)),
   ChatCompletion(Str(<<Fence, Prose([negative |-> 1]), Fence>>))}
    \cup {ChatCompletion(Str(<<Json(d)>>)) : d \in AnalysisDocuments}

\* the answers of the LLM to an action-step request
ActionTexts ==
  {<<"-", " ", "a", "\n", "-", " ", "b">>,
   <<"D", "o", " ", "x", ".", " ", "D", "o", " ", "y", "!">>,
   <<" ">>,
   <<>>}

ActionResponses ==
  {NoChoices, ChatCompletion(NONE)} \cup {ChatCompletion(Chars(t)) : t \in ActionTexts}

---------------------------------------------------------------------------
(* The service                                                             *)

VARIABLES
  app,       \* which implementation is deployed: "main" or "package"
  settings,  \* core/config.py's settings object, read at import
  req,       \* the /report requests: request id -> its handler's state
  call       \* a direct call of parse_action_steps or redact_pii: its
             \* argument and what each application returned

vars == <<app, settings, req, call>>

\* no function is called directly
NoCall == [fn |-> "none", arg |-> <<>>, rets |-> <<>>]

\* the retry count send_with_retry reads
MaxRetries == IF app = "main" THEN MAX_RETRIES ELSE settings.MAX_RETRIES

\* send_with_retry has not been entered
Unused == [Running EXCEPT !.status = "unused"]

Pending == [kind |-> "pending", status_code |-> 0, error |-> "none"]

\* send_with_retry ended without a completion: call_fn raised each time it
\* was invoked
LlmFailed(f) ==
  /\ f.status \in {"returned", "raised"}
  /\ f.trace # <<>>
  /\ f.trace[Len(f.trace)].kind # "completion"

\* a request not yet received.  pc is the handler's place; results holds what
\* analyze_feedback returned for the items so far, and llm_failed whether the
\* LLM call of each of them failed.
Idle ==
  [pc |-> "Idle", feedback |-> <<>>, raw_feedback_count |-> 0, idx |-> 0,
   results |-> <<>>, llm_failed |-> <<>>, clean_items |-> <<>>,
   frame |-> Unused, analysis |-> NONE, actions |-> <<>>,
   outcome |-> Pending, report |-> NONE]

HTTPException(code) == [class |-> "HTTPException", status_code |-> code]
Exception(class) == [class |-> class, status_code |-> 0]

\* main.py: the body of generate_report is in try/except Exception, which
\* answers whatever was raised inside with HTTPException(500)
FailMain(q, exc) ==
  [q EXCEPT !.pc = "Failed", !.frame = Unused,
            !.outcome = [kind |-> "HTTPException", status_code |-> 500,
                         error |-> exc.class]]

\* api/routes/report.py: generate_report catches nothing; what is raised
\* inside leaves it as it is
FailPkg(q, exc) ==
  [q EXCEPT !.pc = "Failed", !.frame = Unused,
            !.outcome = IF exc.class = "HTTPException"
                        THEN [kind |-> "HTTPException",
                              status_code |-> exc.status_code,
                              error |-> exc.class]
                        ELSE [kind |-> "exception", status_code |-> 0,
                              error |-> exc.class]]

Fail(a, q, exc) == IF a = "main" THEN FailMain(q, exc) ELSE FailPkg(q, exc)

send_with_retry(a, f, maxr, o) ==
  IF a = "main" THEN send_with_retry_main(f, maxr, o)
  ELSE send_with_retry_pkg(f, maxr, o)

analyze_feedback(a, text, f) ==
  IF a = "main" THEN analyze_feedback_main(text, f)
  ELSE analyze_feedback_pkg(text, f)

\* mutant: the test for the empty list is left out
comprehensive_analysis_unguarded(a, items, f) ==
  IF a = "main" THEN comprehensive_analysis_main(f)
  ELSE comprehensive_analysis_pkg(f)

\* what comprehensive_analysis returns
comprehensive_analysis(a, items, f) ==
  IF items = <<>> THEN Returned(IF a = "main" THEN NoDataMain ELSE NoDataPkg)
  ELSE IF a = "main" THEN comprehensive_analysis_main(f)
  ELSE comprehensive_analysis_pkg(f)

FixKeys(a, v) == IF a = "main" THEN FixKeysMain(v) ELSE FixKeysPkg(v)

parse_action_steps(a, text) ==
  IF a = "main" THEN parse_action_steps_main(text)
  ELSE parse_action_steps_pkg(text)

BuildResponse(a, an, actions, raw, clean) ==
  IF a = "main" THEN BuildResponseMain(an, actions, raw, clean)
  ELSE BuildResponsePkg(an, actions, raw, clean)

\* comprehensive_analysis or summarize_category is called: an empty list
\* returns at once, any other list goes to send_with_retry
ComponentEnter(items, maxr) == IF items = <<>> THEN Unused ELSE EnterRetry(maxr)

\* what summarize_category returns
summarize_category(a, items, f) ==
  IF items = <<>> THEN Returned(IF a = "main" THEN NoItemsMain ELSE NoItemsPkg)
  ELSE IF a = "main" THEN summarize_category_main(f)
  ELSE summarize_category_pkg(f)

\* parse_action_steps(summarize_category(items, instruction, client))
extract_actions(a, items, f) ==
  LET text == summarize_category(a, items, f)
  IN IF text.raised THEN text ELSE Returned(parse_action_steps(a, text.value))

\* the answers the LLM may give at the handler's place
Responses(q) ==
  CASE q.pc = "Filtering" -> ClassifyResponses
    [] q.pc = "Analyzing" -> AnalysisResponses
    [] q.pc = "Extracting" -> ActionResponses

AtLlmCall(q) ==
  q.pc \in {"Filtering", "Analyzing", "Extracting"} /\ q.frame.status = "running"

Init ==
  /\ app \in Apps
  /\ settings \in IF app = "main"
                  THEN {[MAX_RETRIES |-> DEFAULT_MAX_RETRIES]}
                  ELSE {[MAX_RETRIES |-> n] : n \in ConfiguredRetries}
  /\ req = [r \in Requests |-> Idle]
  /\ call = NoCall

\* POST /report arrives with a valid body: generate_report starts, and
\* analyze_feedback of the first item enters send_with_retry
Receive(r) ==
  /\ req[r].pc = "Idle"
  /\ \E fb \in FeedbackLists :
       req' = [req EXCEPT ![r] =
                 [@ EXCEPT !.pc = "Filtering", !.feedback = fb,
                           !.raw_feedback_count = Len(fb), !.idx = 1,
                           !.frame = EnterRetry(MaxRetries)]]
  /\ UNCHANGED <<app, settings, call>>

\* call_fn returns a completion
LlmCompletes(r) ==
  /\ AtLlmCall(req[r])
  /\ \E resp \in Responses(req[r]) :
       req' = [req EXCEPT ![r].frame =
                 send_with_retry(app, @, MaxRetries, Completed(resp))]
  /\ UNCHANGED <<app, settings, call>>

\* call_fn raises RateLimitError
LlmRateLimits(r) ==
  /\ AtLlmCall(req[r])
  /\ req' = [req EXCEPT ![r].frame =
               send_with_retry(app, @, MaxRetries, RateLimited)]
  /\ UNCHANGED <<app, settings, call>>

\* call_fn raises another APIError
LlmFails(r) ==
  /\ AtLlmCall(req[r])
  /\ req' = [req EXCEPT ![r].frame =
               send_with_retry(app, @, MaxRetries, ApiFailed)]
  /\ UNCHANGED <<app, settings, call>>

\* send_with_retry has ended in analyze_feedback: its result is filtered, and
\* the loop goes to the next item or ends
ClassifyStep(a, q, maxr) ==
  LET text == q.feedback[q.idx]
      res == analyze_feedback(a, text, q.frame)
  IN IF res.raised THEN Fail(a, q, Exception(res.error))
     ELSE LET verdict == FilterItem(res.value)
              seen == [q EXCEPT !.results = Append(@, res.value),
                                !.llm_failed = Append(@, LlmFailed(q.frame))]
              kept == IF verdict = "keep"
                      THEN [seen EXCEPT !.clean_items =
                              Append(@, res.value.fields.cleaned_text)]
                      ELSE seen
          IN IF verdict = "raise"
             THEN Fail(a, seen, Exception(IF res.value.type = "object"
                                          THEN "KeyError" ELSE "TypeError"))
             ELSE IF q.idx < Len(q.feedback)
             THEN [kept EXCEPT !.idx = @ + 1, !.frame = EnterRetry(maxr)]
             ELSE [kept EXCEPT !.pc = "Filtered", !.frame = Unused]

\* mutant: the clean list is one module-level list that every request sees
ClassifyReturnsSharedList(r) ==
  /\ req[r].pc = "Filtering"
  /\ req[r].frame.status # "running"
  /\ LET mine == ClassifyStep(app, req[r], MaxRetries)
     IN req' = [o \in DOMAIN req |->
                  IF o = r THEN mine
                  ELSE [req[o] EXCEPT !.clean_items = mine.clean_items]]
  /\ UNCHANGED <<app, settings, call>>

ClassifyReturns(r) ==
  /\ req[r].pc = "Filtering"
  /\ req[r].frame.status # "running"
  /\ req' = [req EXCEPT ![r] = ClassifyStep(app, @, MaxRetries)]
  /\ UNCHANGED <<app, settings, call>>

\* mutant: the analysis is skipped
CheckStepSkipsAnalysis(a, q, maxr) ==
  IF q.clean_items = <<>> THEN Fail(a, q, HTTPException(422))
  ELSE [q EXCEPT !.pc = "Extracting", !.frame = ComponentEnter(q.clean_items, maxr)]

\* mutant: the empty clean list is not refused
CheckStepNoRefusal(a, q, maxr) ==
  [q EXCEPT !.pc = "Analyzing", !.frame = ComponentEnter(q.clean_items, maxr)]

\* clean_count == 0 raises HTTPException(422); otherwise comprehensive_analysis
\* is called with the clean list
CheckStep(a, q, maxr) ==
  IF Len(q.clean_items) = 0 THEN Fail(a, q, HTTPException(422))
  ELSE [q EXCEPT !.pc = "Analyzing", !.frame = ComponentEnter(q.clean_items, maxr)]

CheckClean(r) ==
  /\ req[r].pc = "Filtered"
  /\ req' = [req EXCEPT ![r] = CheckStep(app, @, MaxRetries)]
  /\ UNCHANGED <<app, settings, call>>

\* send_with_retry has ended in comprehensive_analysis: the analysis is
\* returned and its keys are fixed, then summarize_category is called
AnalysisStep(a, q, maxr) ==
  LET res == comprehensive_analysis(a, q.clean_items, q.frame)
  IN IF res.raised THEN Fail(a, q, Exception(res.error))
     ELSE LET fixed == FixKeys(a, res.value)
          IN IF fixed.raised THEN Fail(a, q, Exception(fixed.error))
             ELSE [q EXCEPT !.pc = "Extracting", !.analysis = fixed.value,
                            !.frame = ComponentEnter(q.clean_items, maxr)]

AnalysisReturns(r) ==
  /\ req[r].pc = "Analyzing"
  /\ req[r].frame.status # "running"
  /\ req' = [req EXCEPT ![r] = AnalysisStep(app, @, MaxRetries)]
  /\ UNCHANGED <<app, settings, call>>

\* send_with_retry has ended in summarize_category: the text is parsed into
\* actions and the FeedbackResponse is built and returned
ExtractionStep(a, q) ==
  LET res == extract_actions(a, q.clean_items, q.frame)
  IN IF res.raised THEN Fail(a, q, Exception(res.error))
     ELSE LET built == BuildResponse(a, q.analysis, res.value,
                                     q.raw_feedback_count, Len(q.clean_items))
          IN IF built.raised
             THEN Fail(a, [q EXCEPT !.actions = res.value], Exception(built.error))
             ELSE [q EXCEPT !.pc = "Assembled", !.actions = res.value,
                            !.frame = Unused, !.report = built.value,
                            !.outcome = [kind |-> "response", status_code |-> 200,
                                         error |-> "none"]]

ExtractionReturns(r) ==
  /\ req[r].pc = "Extracting"
  /\ req[r].frame.status # "running"
  /\ req' = [req EXCEPT ![r] = ExtractionStep(app, @)]
  /\ UNCHANGED <<app, settings, call>>

Next ==
  \E r \in Requests :
    \/ Receive(r)
    \/ LlmCompletes(r)
    \/ LlmRateLimits(r)
    \/ LlmFails(r)
    \/ ClassifyReturns(r)
    \/ CheckClean(r)
    \/ AnalysisReturns(r)
    \/ ExtractionReturns(r)

Spec == Init /\ [][Next]_vars

---------------------------------------------------------------------------
(* Two /report requests in flight at once, their steps interleaved in any  *)
(* order.  The two requests carry different feedback, and each of their    *)
(* LLM calls is rate-limited at most MaxPairRateLimits times.              *)

MaxPairRateLimits == 1

Pair == {1, 2}

\* the body of each request
PairFeedback == <<<<PlainText>>, <<PiiText>>>>

InitPair ==
  /\ app \in Apps
  /\ settings = [MAX_RETRIES |-> DEFAULT_MAX_RETRIES]
  /\ req = [r \in Pair |-> Idle]
  /\ call = NoCall

ReceiveOwn(r) ==
  /\ Receive(r)
  /\ req'[r].feedback = PairFeedback[r]

LlmRateLimitsSometimes(r) ==
  /\ Len(req[r].frame.trace) < MaxPairRateLimits
  /\ LlmRateLimits(r)

NextPair ==
  \E r \in Pair :
    \/ ReceiveOwn(r)
    \/ LlmCompletes(r)
    \/ LlmRateLimitsSometimes(r)
    \/ LlmFails(r)
    \/ ClassifyReturns(r)
    \/ CheckClean(r)
    \/ AnalysisReturns(r)
    \/ ExtractionReturns(r)

SpecPair == InitPair /\ [][NextPair]_vars

---------------------------------------------------------------------------
(* The action extractor on its own: parse_action_steps(summarize_category( *)
(* items, instruction, client)) called with any list, the empty one too    *)

CallExtractor(r) ==
  /\ req[r].pc = "Idle"
  /\ \E items \in ItemLists :
       req' = [req EXCEPT ![r] =
                 [@ EXCEPT !.pc = "Extracting", !.clean_items = items,
                           !.frame = ComponentEnter(items, MaxRetries)]]
  /\ UNCHANGED <<app, settings, call>>

\* the call returns the actions, or raises; the frame is kept as it ended
ExtractorStep(a, q) ==
  LET res == extract_actions(a, q.clean_items, q.frame)
  IN IF res.raised
     THEN [q EXCEPT !.pc = "Extracted",
                    !.outcome = [kind |-> "exception", status_code |-> 0,
                                 error |-> res.error]]
     ELSE [q EXCEPT !.pc = "Extracted", !.actions = res.value,
                    !.outcome = [kind |-> "returned", status_code |-> 0,
                                 error |-> "none"]]

ExtractorReturns(r) ==
  /\ req[r].pc = "Extracting"
  /\ req[r].frame.status # "running"
  /\ req' = [req EXCEPT ![r] = ExtractorStep(app, @)]
  /\ UNCHANGED <<app, settings, call>>

NextExtractor ==
  \E r \in Requests :
    \/ CallExtractor(r)
    \/ LlmCompletes(r)
    \/ LlmRateLimits(r)
    \/ LlmFails(r)
    \/ ExtractorReturns(r)

SpecExtractor == Init /\ [][NextExtractor]_vars

---------------------------------------------------------------------------
(* core/llm.py's send_with_retry under any MAX_RETRIES the environment may *)
(* set, zero and negative ones too, called by the action extractor         *)

AnyRetries == {-1, 0} \cup ConfiguredRetries

InitRetry ==
  /\ app = "package"
  /\ settings \in {[MAX_RETRIES |-> n] : n \in AnyRetries}
  /\ req = [r \in Requests |-> Idle]
  /\ call = NoCall

SpecRetry == InitRetry /\ [][NextExtractor]_vars

---------------------------------------------------------------------------
(* comprehensive_analysis on its own, called with any list, the empty one  *)
(* too                                                                     *)

CallAnalyzer(r) ==
  /\ req[r].pc = "Idle"
  /\ \E items \in ItemLists :
       req' = [req EXCEPT ![r] =
                 [@ EXCEPT !.pc = "Analyzing", !.clean_items = items,
                           !.frame = ComponentEnter(items, MaxRetries)]]
  /\ UNCHANGED <<app, settings, call>>

\* the call returns the analysis, or raises; the frame is kept as it ended
AnalyzerStep(a, q) ==
  LET res == comprehensive_analysis(a, q.clean_items, q.frame)
  IN IF res.raised
     THEN [q EXCEPT !.pc = "Analyzed",
                    !.outcome = [kind |-> "exception", status_code |-> 0,
                                 error |-> res.error]]
     ELSE [q EXCEPT !.pc = "Analyzed", !.analysis = res.value,
                    !.outcome = [kind |-> "returned", status_code |-> 0,
                                 error |-> "none"]]

AnalyzerReturns(r) ==
  /\ req[r].pc = "Analyzing"
  /\ req[r].frame.status # "running"
  /\ req' = [req EXCEPT ![r] = AnalyzerStep(app, @)]
  /\ UNCHANGED <<app, settings, call>>

NextAnalyzer ==
  \E r \in Requests :
    \/ CallAnalyzer(r)
    \/ LlmCompletes(r)
    \/ LlmRateLimits(r)
    \/ LlmFails(r)
    \/ AnalyzerReturns(r)

SpecAnalyzer == Init /\ [][NextAnalyzer]_vars

---------------------------------------------------------------------------
(* parse_action_steps on its own, called with any text                     *)

InitParser ==
  /\ app \in Apps
  /\ settings = [MAX_RETRIES |-> DEFAULT_MAX_RETRIES]
  /\ req = [r \in Requests |-> Idle]
  /\ call \in {[fn |-> "parse_action_steps", arg |-> t, rets |-> <<>>] :
                 t \in ParserTexts}

\* the call returns the list of actions
ParserReturns ==
  /\ call.fn = "parse_action_steps"
  /\ call.rets = <<>>
  /\ call' = [call EXCEPT !.rets = <<parse_action_steps(app, call.arg)>>]
  /\ UNCHANGED <<app, settings, req>>

NextParser == ParserReturns

SpecParser == InitParser /\ [][NextParser]_vars

---------------------------------------------------------------------------
(* redact_pii on its own, called with any text and then with its own       *)
(* result                                                                  *)

\* how often redact_pii is applied in a row
Applications == 2

InitRedactor ==
  /\ app \in Apps
  /\ settings = [MAX_RETRIES |-> DEFAULT_MAX_RETRIES]
  /\ req = [r \in Requests |-> Idle]
  /\ call \in {[fn |-> "redact_pii", arg |-> t, rets |-> <<>>] : t \in RedactTexts}

\* redact_pii(text) returns; the next call is made with what it returned
RedactorReturns ==
  /\ call.fn = "redact_pii"
  /\ Len(call.rets) < Applications
  /\ LET text == IF call.rets = <<>> THEN call.arg ELSE call.rets[Len(call.rets)]
     IN call' = [call EXCEPT !.rets = Append(@, redact_pii(text))]
  /\ UNCHANGED <<app, settings, req>>

NextRedactor == RedactorReturns

SpecRedactor == InitRedactor /\ [][NextRedactor]_vars

---------------------------------------------------------------------------
(* Claims                                                                  *)

Ended(f) == f.status \in {"returned", "raised"}

AllRateLimited(trace) ==
  \A i \in 1..Len(trace) : trace[i].kind = "RateLimitError"

LastOf(seq) == seq[Len(seq)]

\* C1, as claimed: when call_fn is rate-limited at every invocation,
\* send_with_retry ends after exactly MaxRetries invocations, by raising the
\* RateLimitError, in main.py and in core/llm.py alike.
C1_AlwaysRateLimitedPropagates ==
  \A r \in Requests :
    LET f == req[r].frame
    IN (Ended(f) /\ f.trace # <<>> /\ AllRateLimited(f.trace))
         => /\ Len(f.trace) = MaxRetries
            /\ f.status = "raised"
            /\ f.error = "RateLimitError"

\* C1, what each version does: when call_fn is rate-limited at every
\* invocation, send_with_retry ends after exactly MaxRetries invocations;
\* core/llm.py then raises the RateLimitError, main.py returns None.
C1_AlwaysRateLimitedExhausts ==
  \A r \in Requests :
    LET f == req[r].frame
    IN (Ended(f) /\ f.trace # <<>> /\ AllRateLimited(f.trace))
         => /\ Len(f.trace) = MaxRetries
            /\ app = "package" => (f.status = "raised" /\ f.error = "RateLimitError")
            /\ app = "main" => (f.status = "returned" /\ f.value = NONE)

\* C1, the failing case reached: main.py's wrapper has returned after MAX_RETRIES rate limits
C1_Witness ==
  \E r \in Requests :
    /\ app = "main"
    /\ req[r].frame.status = "returned"
    /\ Len(req[r].frame.trace) = MAX_RETRIES
    /\ AllRateLimited(req[r].frame.trace)

\* C2: while call_fn has been rate-limited k < MaxRetries times and nothing
\* else, send_with_retry is still at work and about to make invocation k+1;
\* and once an invocation succeeds, after rate limits only, send_with_retry has
\* returned that invocation's value and invokes nothing more.
C2_SucceedsAfterRateLimits ==
  \A r \in Requests :
    LET f == req[r].frame
        n == Len(f.trace)
    IN /\ (f.status # "unused" /\ AllRateLimited(f.trace) /\ n < MaxRetries)
            => (f.status = "running" /\ f.attempt = n + 1)
       /\ (n > 0 /\ LastOf(f.trace).kind = "completion")
            => /\ f.status = "returned"
               /\ f.value = LastOf(f.trace).resp
               /\ AllRateLimited(SubSeq(f.trace, 1, n - 1))
               /\ n <= MaxRetries

\* C2, witness: the last allowed invocation succeeded after rate limits
C2_Witness ==
  \E r \in Requests :
    LET f == req[r].frame
    IN /\ Len(f.trace) = MaxRetries
       /\ Len(f.trace) >= 2
       /\ LastOf(f.trace).kind = "completion"
       /\ f.status = "returned"
       /\ f.value = LastOf(f.trace).resp

\* C3, as claimed: an APIError that is not a rate limit is the last thing
\* call_fn is invoked for, and send_with_retry raises it, in main.py and in
\* core/llm.py alike.
C3_OtherFailurePropagates ==
  \A r \in Requests :
    LET f == req[r].frame
    IN \A i \in 1..Len(f.trace) :
         f.trace[i].kind = "APIError"
           => (i = Len(f.trace) /\ f.status = "raised" /\ f.error = "APIError")

\* C3, what each version does: an APIError that is not a rate limit is the
\* last thing call_fn is invoked for, on whichever attempt; core/llm.py raises
\* it, main.py returns None.
C3_OtherFailureEnds ==
  \A r \in Requests :
    LET f == req[r].frame
    IN \A i \in 1..Len(f.trace) :
         f.trace[i].kind = "APIError"
           => /\ i = Len(f.trace)
              /\ app = "package" => (f.status = "raised" /\ f.error = "APIError")
              /\ app = "main" => (f.status = "returned" /\ f.value = NONE)

\* C3, the conforming case reached: core/llm.py's wrapper has raised the
\* APIError of a first call
C3_Witness ==
  \E r \in Requests :
    /\ app = "package"
    /\ req[r].frame.status = "raised"
    /\ Len(req[r].frame.trace) = 1
    /\ req[r].frame.trace[1].kind = "APIError"

\* a classification with all three fields and the given flags
Classified(res, ci, cp) ==
  /\ Has(res, "contains_inappropriate") /\ Has(res, "contains_pii")
  /\ Has(res, "cleaned_text")
  /\ res.fields.contains_inappropriate = ci
  /\ res.fields.contains_pii = cp

\* a classification that raises one of the two flags
Flagged(res) ==
  /\ Has(res, "contains_inappropriate")
  /\ \/ res.fields.contains_inappropriate
     \/ (Has(res, "contains_pii") /\ res.fields.contains_pii)

\* every item has been classified and filtered without an error
FilteringDone(q) ==
  /\ q.feedback # <<>>
  /\ Len(q.results) = Len(q.feedback)
  /\ \A i \in 1..Len(q.results) :
       Flagged(q.results[i]) \/ Classified(q.results[i], FALSE, FALSE)

\* C4, as claimed: a request whose items were all classified and all dropped
\* ends with HTTPException(422), in main.py and in api/routes/report.py alike.
C4_EmptyCleanListIs422 ==
  \A r \in Requests :
    LET q == req[r]
    IN (q.pc = "Failed" /\ FilteringDone(q) /\ q.clean_items = <<>>)
         => (q.outcome.kind = "HTTPException" /\ q.outcome.status_code = 422)

\* C5: when send_with_retry has ended without a completion for an item,
\* analyze_feedback returns (the request does not fail in it) the dict with
\* both flags false and cleaned_text = redact_pii(the item's text).
C5_LlmFailureGivesSafeDefault ==
  [][\A r \in Requests :
       (req[r].pc = "Filtering" /\ LlmFailed(req[r].frame) /\ req'[r] # req[r])
         => /\ req'[r].pc # "Failed"
            /\ req'[r].results =
                 Append(req[r].results,
                        Verdict(FALSE, FALSE,
                                redact_pii(req[r].feedback[req[r].idx])))]_vars

\* C5, witness: the LLM call of an item with PII failed, and the item's result
\* holds the text redacted by the patterns
C5_Witness ==
  \E r \in Requests :
    \E i \in 1..Len(req[r].results) :
      /\ req[r].llm_failed[i]
      /\ req[r].feedback[i] = PiiText
      /\ req[r].results[i] = Verdict(FALSE, FALSE, REDACTED \o <<" ">> \o REDACTED)

RECURSIVE CleanTexts(_, _)
\* the cleaned_text of the results from i on that raise neither flag, in order
CleanTexts(results, i) ==
  IF i > Len(results) THEN <<>>
  ELSE IF Classified(results[i], FALSE, FALSE)
  THEN <<results[i].fields.cleaned_text>> \o CleanTexts(results, i + 1)
  ELSE CleanTexts(results, i + 1)

\* C6: the clean list is, in input order, the cleaned_text of the items
\* classified with both flags false and of no other item, and each item is
\* classified once: one result per item filtered so far, one per item once
\* filtering is over.
C6_CleanListIsFilteredInOrder ==
  \A r \in Requests :
    LET q == req[r]
    IN q.pc # "Idle"
         => /\ q.clean_items = CleanTexts(q.results, 1)
            /\ Len(q.results) <= Len(q.feedback)
            /\ q.pc = "Filtering" => Len(q.results) = q.idx - 1
            /\ q.pc \in {"Filtered", "Analyzing", "Extracting", "Assembled"}
                 => Len(q.results) = Len(q.feedback)

\* C6, witness: a report was assembled from two items, both kept, in order
C6_Witness ==
  \E r \in Requests :
    /\ req[r].pc = "Assembled"
    /\ req[r].feedback = <<PlainText, PiiText>>
    /\ req[r].clean_items = <<PlainText, REDACTED>>

\* one item flagged for PII only, the other clean
OnePiiOneClean(q) ==
  /\ Len(q.results) = 2
  /\ \E i, j \in 1..2 :
       /\ Classified(q.results[i], FALSE, TRUE)
       /\ Classified(q.results[j], FALSE, FALSE)

\* C7, as claimed: in a report assembled from two items, one classified as
\* PII (not inappropriate) and one clean, both items count as clean.
C7_PiiItemPasses ==
  \A r \in Requests :
    LET q == req[r]
    IN (q.pc = "Assembled" /\ OnePiiOneClean(q))
         => /\ q.report.clean_feedback_count = 2
            /\ q.report.raw_feedback_count = 2

\* C7, amended: in a report assembled from two items, one classified as PII
\* (not inappropriate) and one clean, the PII item is discarded: the clean list
\* holds the clean item's cleaned_text alone, cleanCount = 1 and rawCount = 2.
C7_PiiItemDiscarded ==
  \A r \in Requests :
    LET q == req[r]
    IN (q.pc = "Assembled" /\ OnePiiOneClean(q))
         => /\ q.report.clean_feedback_count = 1
            /\ q.report.raw_feedback_count = 2
            /\ \E j \in 1..2 :
                 /\ Classified(q.results[j], FALSE, FALSE)
                 /\ q.clean_items = <<q.results[j].fields.cleaned_text>>

\* C7, witness: such a report was assembled
C7_Witness ==
  \E r \in Requests :
    /\ req[r].pc = "Assembled"
    /\ OnePiiOneClean(req[r])
    /\ req[r].outcome.status_code = 200

\* C8: a response is returned only as the assembled report, and in it
\* raw_feedback_count is the length of the request's list,
\* clean_feedback_count the number of items classified with both flags false,
\* and 1 <= clean_feedback_count <= raw_feedback_count.
C8_ReportCounts ==
  \A r \in Requests :
    LET q == req[r]
        survivors == {i \in 1..Len(q.results) :
                        Classified(q.results[i], FALSE, FALSE)}
    IN /\ q.outcome.kind = "response" => q.pc = "Assembled"
       /\ q.pc = "Assembled"
            => /\ q.outcome.kind = "response"
               /\ q.report.raw_feedback_count = Len(q.feedback)
               /\ q.report.clean_feedback_count = Cardinality(survivors)
               /\ 1 <= q.report.clean_feedback_count
               /\ q.report.clean_feedback_count <= q.report.raw_feedback_count

\* C8, witness: a report with fewer clean items than raw ones
C8_Witness ==
  \E r \in Requests :
    /\ req[r].pc = "Assembled"
    /\ req[r].report.raw_feedback_count = 2
    /\ req[r].report.clean_feedback_count = 1

\* C9, as claimed: a request that fails after filtering left a non-empty clean
\* list (in the analysis or the extraction step) ends with HTTPException(500),
\* raised by generate_report, and with no report.
C9_LateFailureIs500 ==
  \A r \in Requests :
    LET q == req[r]
    IN (q.pc = "Failed" /\ FilteringDone(q) /\ q.clean_items # <<>>)
         => /\ q.outcome.kind = "HTTPException"
            /\ q.outcome.status_code = 500
            /\ q.report = NONE

\* no usable response: None, no choices, or no content
Unusable(f) ==
  /\ f.status = "returned"
  /\ \/ f.value = NONE
     \/ f.value.choices = 0
     \/ f.value.content = NONE

\* C10, as claimed: the action extractor returns the empty list, and does not
\* raise, when the item list is empty, when the LLM call failed, and when the
\* response is not usable.
C10_ExtractorYieldsEmptyList ==
  \A r \in Requests :
    LET q == req[r]
    IN (q.pc = "Extracted"
          /\ (q.clean_items = <<>> \/ LlmFailed(q.frame) \/ Unusable(q.frame)))
         => (q.outcome.kind = "returned" /\ q.actions = <<>>)

\* the bullet markers the specification names
Markers == {"-", "*", BULLET}

\* a line that, trimmed, begins with a bullet marker
Bulleted(line) == Strip(line) # <<>> /\ Strip(line)[1] \in Markers

RECURSIVE Remainders(_, _)
\* the trimmed remainders of the bulleted lines from i on, marker removed
Remainders(lines, i) ==
  IF i > Len(lines) THEN <<>>
  ELSE IF Bulleted(lines[i])
  THEN <<Strip(Tail(Strip(lines[i])))>> \o Remainders(lines, i + 1)
  ELSE Remainders(lines, i + 1)

\* the text has a bulleted line
HasBullets(text) ==
  \E i \in 1..Len(SplitNewline(text)) : Bulleted(SplitNewline(text)[i])

\* parse_action_steps was called and has returned
Parsed == call.fn = "parse_action_steps" /\ call.rets # <<>>

\* C11, as claimed: for a text with at least one bulleted line (marker -, * or
\* the bullet character), parse_action_steps returns exactly the trimmed
\* remainders of the bulleted lines, in order, and nothing from other lines.
C11_BulletedLinesOnly ==
  (Parsed /\ HasBullets(call.arg))
    => call.rets[1] = Remainders(SplitNewline(call.arg), 1)

RECURSIVE TrimmedNonEmpty(_, _)
\* the pieces from i on, each trimmed, without those that are then empty
TrimmedNonEmpty(pieces, i) ==
  IF i > Len(pieces) THEN <<>>
  ELSE IF Strip(pieces[i]) = <<>> THEN TrimmedNonEmpty(pieces, i + 1)
  ELSE <<Strip(pieces[i])>> \o TrimmedNonEmpty(pieces, i + 1)

\* the text has a line break
HasLineBreak(text) == \E k \in 1..Len(text) : text[k] = "\n"

\* C12, as claimed: for a text of several lines none of which is bulleted,
\* parse_action_steps returns every non-empty trimmed line, in order.
C12_UnbulletedLinesAreActions ==
  (Parsed /\ ~HasBullets(call.arg) /\ HasLineBreak(call.arg))
    => call.rets[1] = TrimmedNonEmpty(SplitNewline(call.arg), 1)

\* C13, as claimed: for a non-empty text without a bulleted line and without
\* a line break, parse_action_steps returns, in order, the trimmed pieces of
\* the split after ., ! or ? followed by whitespace, and no element is empty.
C13_SentencesAreActions ==
  (Parsed /\ call.arg # <<>> /\ ~HasBullets(call.arg) /\ ~HasLineBreak(call.arg))
    => /\ call.rets[1] = TrimmedNonEmpty(SplitSentences(call.arg, 1, 1), 1)
       /\ \A i \in 1..Len(call.rets[1]) : call.rets[1][i] # <<>>

\* MinDigitRun consecutive decimal digits somewhere in s
HasDigitRun(s) ==
  \E i \in 1..Len(s) :
    /\ i + MinDigitRun - 1 <= Len(s)
    /\ \A k \in i..(i + MinDigitRun - 1) : s[k] \in Digits

\* an e-mail-shaped substring somewhere in s
HasEmail(s) == \E i \in 1..Len(s) : EmailMatchEnd(s, i) > 0

\* C14, as claimed: what redact_pii returns holds no run of 6 or more
\* consecutive digits and no e-mail-shaped substring.
C14_NoPiiLeft ==
  (call.fn = "redact_pii" /\ call.rets # <<>>)
    => (~HasDigitRun(call.rets[1]) /\ ~HasEmail(call.rets[1]))

\* C15, as claimed: redact_pii applied to its own result returns that result.
C15_RedactIdempotent ==
  (call.fn = "redact_pii" /\ Len(call.rets) >= 2)
    => call.rets[2] = call.rets[1]

\* C16: comprehensive_analysis called with the empty list returns the no-data
\* summary of its version ("No feedback data available to analyze." in
\* main.py, the empty string in services/feedback.py) with positive, neutral
\* and negative all 0, and call_fn is never invoked.
C16_EmptyListShortCircuits ==
  \A r \in Requests :
    LET q == req[r]
    IN (q.pc = "Analyzed" /\ q.clean_items = <<>>)
         => /\ q.outcome.kind = "returned"
            /\ q.analysis.fields.summary =
                 (IF app = "main" THEN "No feedback data available to analyze."
                  ELSE "")
            /\ q.analysis.fields.sentiment_analysis.fields =
                 [positive |-> 0, neutral |-> 0, negative |-> 0]
            /\ q.frame.trace = <<>>
            /\ q.frame.status = "unused"

\* C16, witness: the call with the empty list has returned
C16_Witness ==
  \E r \in Requests :
    /\ req[r].pc = "Analyzed"
    /\ req[r].clean_items = <<>>
    /\ req[r].analysis # NONE

\* the three fields of a classification
ClassificationFields == {"contains_inappropriate", "contains_pii", "cleaned_text"}

\* C17, as claimed: whatever the LLM answers to a classification request,
\* analyze_feedback returns a result with all three fields, and no request
\* fails before all its items are classified and filtered.
C17_ClassifierAlwaysUsable ==
  \A r \in Requests :
    LET q == req[r]
    IN /\ \A i \in 1..Len(q.results) :
            \A k \in ClassificationFields : Has(q.results[i], k)
       /\ q.pc = "Failed" => FilteringDone(q)

\* C18: a request is at the analysis, at the extraction or assembled only
\* when every item has been classified and the clean list is not empty; it
\* comes to the analysis from the filtering, to the extraction from the
\* analysis and to the assembled report from the extraction.
C18_AnalysisAfterFiltering ==
  [][\A r \in Requests :
       LET q == req[r]
           n == req'[r]
       IN /\ n.pc \in {"Analyzing", "Extracting", "Assembled"}
               => (Len(n.results) = Len(n.feedback) /\ n.clean_items # <<>>)
          /\ n.pc = "Analyzing" => q.pc \in {"Filtered", "Analyzing"}
          /\ n.pc = "Extracting" => q.pc \in {"Analyzing", "Extracting"}
          /\ n.pc = "Assembled" => q.pc \in {"Extracting", "Assembled"}
          /\ n.pc = "Filtered" => q.pc \in {"Filtering", "Filtered"}]_vars

\* C18, witness: a report was assembled after an LLM call of the analysis and
\* one of the extraction, for two items of which one was dropped
C18_Witness ==
  \E r \in Requests :
    /\ req[r].pc = "Assembled"
    /\ Len(req[r].results) = 2
    /\ Len(req[r].clean_items) = 1
    /\ req[r].analysis # NONE
    /\ req[r].actions # <<>>

\* the text without its code fences and without a leading language tag
StripWrapper(tokens) ==
  LET RECURSIVE unfenced(_)
      unfenced(k) == IF k > Len(tokens) THEN <<>>
                     ELSE IF tokens[k] = Fence THEN unfenced(k + 1)
                     ELSE <<tokens[k]>> \o unfenced(k + 1)
      inner == unfenced(1)
  IN IF inner # <<>> /\ inner[1] = Tag THEN Tail(inner) ELSE inner

\* the LLM call of the request returned a text that is not JSON, also
\* without its wrapper
AnsweredNotJson(q) ==
  /\ q.frame.status = "returned"
  /\ q.frame.value # NONE
  /\ q.frame.value.choices > 0
  /\ q.frame.value.content # NONE
  /\ json_loads(StripWrapper(q.frame.value.content.tokens)).raised

\* C19, as claimed: for a non-empty list and an answer that is not JSON even
\* without its fence and tag, comprehensive_analysis returns a summary and
\* the three counts, each the number found in the text after its key, or 0.
C19_CountsAreScraped ==
  \A r \in Requests :
    LET q == req[r]
    IN (q.pc = "Analyzed" /\ q.clean_items # <<>> /\ AnsweredNotJson(q))
         => /\ q.outcome.kind = "returned"
            /\ Has(q.analysis, "summary")
            /\ Has(q.analysis, "sentiment_analysis")
            /\ \A k \in {"positive", "neutral", "negative"} :
                 q.analysis.fields.sentiment_analysis.fields[k]
                   = Scrape(q.frame.value.content.tokens, k, 0)

\* C20, as claimed: in every assembled report the three sentiment counts are
\* non-negative integers, whatever the LLM answered to the analysis request.
C20_SentimentNonNegative ==
  \A r \in Requests :
    req[r].pc = "Assembled"
      => \A k \in {"positive", "neutral", "negative"} :
           req[r].report.sentiment[k] \in Nat

RECURSIVE SumSeq(_)
\* the sum of a sequence of numbers
SumSeq(seq) == IF seq = <<>> THEN 0 ELSE Head(seq) + SumSeq(Tail(seq))

\* C21: the i-th sleep of send_with_retry lasts 2^(i-1); there is one sleep
\* for each rate-limited attempt before attempt number MaxRetries and no
\* other (none before the first attempt, none after a success, none after
\* the rate-limited attempt number MaxRetries); and a success after k rate
\* limits comes after 2^k - 1 units of sleep in total.
C21_BackoffDoubles ==
  \A r \in Requests :
    LET f == req[r].frame
        n == Len(f.trace)
        retried == {i \in 1..n : f.trace[i].kind = "RateLimitError" /\ i < MaxRetries}
    IN /\ \A i \in 1..Len(f.sleeps) : f.sleeps[i] = 2 ^ (i - 1)
       /\ Len(f.sleeps) = Cardinality(retried)
       /\ (n > 0 /\ LastOf(f.trace).kind = "completion")
            => SumSeq(f.sleeps) = 2 ^ (n - 1) - 1

\* C21, witness: core/llm.py's wrapper returned a completion after four rate
\* limits and sleeps of 1, 2, 4 and 8
C21_Witness ==
  \E r \in Requests :
    /\ app = "package"
    /\ req[r].frame.status = "returned"
    /\ LastOf(req[r].frame.trace).kind = "completion"
    /\ req[r].frame.sleeps = <<1, 2, 4, 8>>

\* what the LLM may do at a call of request state q
LlmOutcomes(q) == {RateLimited, ApiFailed} \cup {Completed(resp) : resp \in Responses(q)}

\* the states a request in state q can come to by one step when it is the
\* only request: a function of q and of the configuration, nothing else
AloneSteps(q) ==
  (IF q.pc = "Idle"
   THEN {[q EXCEPT !.pc = "Filtering", !.feedback = fb,
                   !.raw_feedback_count = Len(fb), !.idx = 1,
                   !.frame = EnterRetry(MaxRetries)] : fb \in FeedbackLists}
   ELSE {})
  \cup
  (IF AtLlmCall(q)
   THEN {[q EXCEPT !.frame = send_with_retry(app, q.frame, MaxRetries, o)] :
           o \in LlmOutcomes(q)}
   ELSE {})
  \cup
  (IF q.pc = "Filtering" /\ q.frame.status # "running"
   THEN {ClassifyStep(app, q, MaxRetries)} ELSE {})
  \cup
  (IF q.pc = "Filtered" THEN {CheckStep(app, q, MaxRetries)} ELSE {})
  \cup
  (IF q.pc = "Analyzing" /\ q.frame.status # "running"
   THEN {AnalysisStep(app, q, MaxRetries)} ELSE {})
  \cup
  (IF q.pc = "Extracting" /\ q.frame.status # "running"
   THEN {ExtractionStep(app, q)} ELSE {})

\* C22: with two requests in flight and their steps and LLM calls interleaved
\* in any order, every step changes the state of one request only and brings
\* it to a state that request comes to from the same state, with the same LLM
\* outcome, when it runs alone; the configuration is never written.  So each
\* request ends in the report or failure it ends in when run alone.
C22_RequestsDoNotInterfere ==
  [][/\ app' = app
     /\ settings' = settings
     /\ \A r \in Pair :
          \/ req'[r] = req[r]
          \/ /\ req'[r] \in AloneSteps(req[r])
             /\ \A o \in Pair \ {r} : req'[o] = req[o]]_vars

\* C22, witness: both requests are in the middle of their pipelines, each at
\* an LLM call after a rate limit, with different clean lists
C22_Witness ==
  /\ req[1].pc = "Extracting" /\ req[1].frame.status = "running"
  /\ req[2].pc = "Analyzing" /\ req[2].frame.status = "running"
  /\ Len(req[1].frame.trace) = 1 /\ Len(req[2].frame.trace) = 1
  /\ req[1].clean_items = <<PlainText>>
  /\ req[2].clean_items = <<REDACTED \o <<" ">> \o REDACTED>>

\* the LLM call of every item of the request failed
AllClassifyCallsFailed(q) ==
  /\ q.feedback # <<>>
  /\ Len(q.llm_failed) = Len(q.feedback)
  /\ \A i \in 1..Len(q.llm_failed) : q.llm_failed[i]

\* C23: when the LLM call of every item failed, the clean list is the list of
\* the items, each redacted by redact_pii, so it is as long as the feedback
\* list and not empty; the request is not refused with 422, and a report, if
\* one is assembled, has clean_feedback_count = raw_feedback_count.
C23_AllFailedKeepsEveryItem ==
  \A r \in Requests :
    LET q == req[r]
    IN AllClassifyCallsFailed(q)
         => /\ q.clean_items = [i \in 1..Len(q.feedback) |-> redact_pii(q.feedback[i])]
            /\ Len(q.clean_items) = q.raw_feedback_count
            /\ q.pc # "Filtering"
            /\ q.outcome.status_code # 422
            /\ q.pc = "Failed" => q.outcome.error # "HTTPException"
            /\ q.pc = "Assembled"
                 => q.report.clean_feedback_count = q.report.raw_feedback_count

\* C23, witness: main.py assembled a report for two items, one of them with
\* PII, after the LLM call of each item and of the analysis had failed
C23_Witness ==
  \E r \in Requests :
    /\ app = "main"
    /\ req[r].pc = "Assembled"
    /\ req[r].llm_failed = <<TRUE, TRUE>>
    /\ req[r].feedback[2] = PiiText
    /\ req[r].report.clean_feedback_count = 2
    /\ req[r].report.summary = "Error generating feedback analysis."

\* C24: when core/llm.py's send_with_retry has ended under MAX_RETRIES >= 1,
\* call_fn was invoked at least once and the function returned the value of
\* the last invocation or raised its error; under MAX_RETRIES <= 0 call_fn
\* was never invoked and the function returned None.
C24_NoneOnlyWithoutAttempts ==
  \A r \in Requests :
    LET f == req[r].frame
    IN (app = "package" /\ Ended(f))
         => IF settings.MAX_RETRIES >= 1
            THEN /\ f.trace # <<>>
                 /\ \/ /\ f.status = "returned"
                       /\ LastOf(f.trace).kind = "completion"
                       /\ f.value = LastOf(f.trace).resp
                       /\ f.value # NONE
                    \/ /\ f.status = "raised"
                       /\ LastOf(f.trace).kind \in {"RateLimitError", "APIError"}
                       /\ f.error = LastOf(f.trace).kind
            ELSE /\ f.trace = <<>>
                 /\ f.status = "returned"
                 /\ f.value = NONE

\* C24, witness: under MAX_RETRIES = 2 the function has raised the rate limit
\* of its second invocation
C24_Witness ==
  \E r \in Requests :
    /\ settings.MAX_RETRIES = 2
    /\ req[r].frame.status = "raised"
    /\ req[r].frame.error = "RateLimitError"
    /\ Len(req[r].frame.trace) = 2

====
